---- MODULE Spec2Model ----
\* Swarm coordination hub (src/app.py): the in-memory agent registry guarded by
\* STATE_LOCK, the sqlite-backed audit table, and the Flask handlers that drive
\* them, executed by concurrent request threads.
EXTENDS Integers, Sequences, FiniteSets, TLC

\* ---------------------------------------------------------------- bounds

MaxCalls == 3       \* requests started in one behaviour
MaxClock == 2       \* clock ticks (one tick = 0.04 s)
MaxPrior == 49      \* rows already in swarm_audit.db when the process starts

LIMIT == 50         \* SELECT ... LIMIT 50

Threads == {"t1", "t2"}
Agents  == {"a1", "a2"}
Metas   == {"m1", "m2"}
Tasks   == {"p1", "p2"}
\* each caller sends its own meta and its own task
MetaOf(t) == IF t = "t1" THEN "m1" ELSE "m2"
TaskOf(t) == IF t = "t1" THEN "p1" ELSE "p2"
Missing == ""       \* an absent / falsy request field
NoThread == "none"
OPERATOR == "swarm-core"

VARIABLES
    AGENTS,      \* dict agent_id -> {meta, last_seen, status, task}
    STATE_LOCK,  \* holder of the registry lock, or NoThread
    events,      \* committed rows of table events, in commit order
    seq,         \* sqlite_sequence of table events (AUTOINCREMENT)
    dbWriter,    \* connection holding the database write lock, or NoThread
    now,         \* the wall clock
    pc,          \* per thread: position in its handler
    req,         \* per thread: the request being served
    row,         \* per thread: audit()'s locals (the row being inserted)
    ret,         \* per thread: the last response sent
    ncalls,      \* history: requests started
    mut,         \* history: registry mutations in the order applied
    src,         \* history: for each row committed by this process, its request
    rets,        \* history: finished register / heartbeat / assign requests
    prior,       \* history: rows present at process start
    polled       \* history: per agent, the last last_seen_delta reported since
                 \* its last heartbeat (hb) / last write of last_seen (wr); 0 if none

vars == <<AGENTS, STATE_LOCK, events, seq, dbWriter, now, pc, req, row, ret,
          ncalls, mut, src, rets, prior, polled>>

\* ------------------------------------------------------------ audit store

\* json.dumps key order under sort_keys=True
KeyRank(k) ==
    CASE k = "id"       -> 1
      [] k = "meta"     -> 2
      [] k = "operator" -> 3
      [] k = "payload"  -> 4
      [] k = "task"     -> 5
      [] k = "ts"       -> 6
      [] k = "type"     -> 7

RECURSIVE InsertKey(_, _)
InsertKey(p, d) ==
    IF d = <<>> THEN <<p>>
    ELSE IF KeyRank(p[1]) <= KeyRank(Head(d)[1]) THEN <<p>> \o d
    ELSE <<Head(d)>> \o InsertKey(p, Tail(d))

RECURSIVE SortKeys(_)
\* the tail is sorted once, then the head is inserted into it
SortKeys(d) ==
    IF d = <<>> THEN <<>>
    ELSE CHOOSE s \in {InsertKey(Head(d), r) : r \in {SortKeys(Tail(d))}} : TRUE

\* json.dumps(payload): the dict's items in insertion order
JsonDumps(d) == [json |-> d]

\* json.dumps(rec, sort_keys=True): keys sorted at every level
JsonDumpsSorted(rec) ==
    [json |-> SortKeys(<<
        <<"ts", rec.ts>>, <<"type", rec.type>>,
        <<"payload", SortKeys(rec.payload)>>, <<"operator", rec.operator>> >>)]

\* hashlib.sha256(...).hexdigest(), collision-free
Sha256(text) == [sha256 |-> text]

\* datetime.utcnow().isoformat() + "Z"
IsoZ(t) == [utc |-> t]

\* faulty variant: the hash is taken over json.dumps(rec) without sort_keys
AuditRowUnsorted(evt_type, payload, operator, t) ==
    LET ts == IsoZ(t)
    IN  [id |-> 0, ts |-> ts, type |-> evt_type, payload |-> JsonDumps(payload),
         operator |-> operator,
         hash |-> Sha256(JsonDumps(<< <<"ts", ts>>, <<"type", evt_type>>,
                                      <<"payload", payload>>, <<"operator", operator>> >>))]

\* audit(): ts, rec and h, before the row is inserted (id not yet assigned)
AuditRow(evt_type, payload, operator, t) ==
    LET ts  == IsoZ(t)
        rec == [ts |-> ts, type |-> evt_type, payload |-> payload, operator |-> operator]
    IN  [id |-> 0, ts |-> ts, type |-> evt_type, payload |-> JsonDumps(payload),
         operator |-> operator, hash |-> Sha256(JsonDumpsSorted(rec))]

\* INTEGER PRIMARY KEY AUTOINCREMENT: one more than the largest id ever used
NextRowId(s) == s + 1

\* ORDER BY id DESC
RECURSIVE InsertDesc(_, _)
InsertDesc(r, rows) ==
    IF rows = <<>> THEN <<r>>
    ELSE IF r.id >= Head(rows).id THEN <<r>> \o rows
    ELSE <<Head(rows)>> \o InsertDesc(r, Tail(rows))

RECURSIVE OrderByIdDesc(_, _)
OrderByIdDesc(rows, acc) ==
    IF rows = <<>> THEN acc
    ELSE OrderByIdDesc(Tail(rows), InsertDesc(Head(rows), acc))

\* faulty variant: ORDER BY id ASC LIMIT 50, the oldest rows first
ListingOldest(evts) ==
    LET n == IF Len(evts) < LIMIT THEN Len(evts) ELSE LIMIT
    IN  SubSeq(evts, 1, n)

\* SELECT * FROM events ORDER BY id DESC LIMIT 50
Listing(evts) ==
    LET sorted == OrderByIdDesc(evts, <<>>)
        n == IF Len(sorted) < LIMIT THEN Len(sorted) ELSE LIMIT
    IN  SubSeq(sorted, 1, n)

\* a row written by an earlier run of the program
PriorRow(i) ==
    [AuditRow("register_agent", <<<<"id", "a1">>, <<"meta", "m1">>>>, OPERATOR, 0)
        EXCEPT !.id = i]

\* --------------------------------------------------------------- registry

\* the dict literal of register_agent
NewAgent(meta, t) ==
    [meta |-> meta, last_seen |-> t, status |-> "idle", task |-> "null"]

\* faulty variant: a known agent keeps its status and task on re-registration
RegisteredKeep(agents, id, meta, t) ==
    [x \in DOMAIN agents \cup {id} |->
        IF x # id THEN agents[x]
        ELSE IF id \in DOMAIN agents
             THEN [agents[x] EXCEPT !.meta = meta, !.last_seen = t]
             ELSE NewAgent(meta, t)]

\* faulty variant: the dict is rebound to hold the new agent alone
RegisteredRebind(agents, id, meta, t) ==
    [x \in {id} |-> NewAgent(meta, t)]

\* AGENTS[agent_id] = {...}
Registered(agents, id, meta, t) ==
    [x \in DOMAIN agents \cup {id} |->
        IF x = id THEN NewAgent(meta, t) ELSE agents[x]]

\* agent_id in AGENTS
Known(agents, id) == id \in DOMAIN agents

\* faulty variant: the critical sections run without the lock
LockFreeAlways(l) == TRUE

\* STATE_LOCK can be acquired
LockFree(l) == l = NoThread

\* round(now - last_seen, 1), in tenths of a second; the clock counts 0.04 s
Round1(d) == (4 * d + 5) \div 10

\* faulty variant: the difference is taken the wrong way round
SnapshotFlipped(agents, t) ==
    [x \in DOMAIN agents |->
        [meta |-> agents[x].meta, last_seen |-> agents[x].last_seen,
         status |-> agents[x].status, task |-> agents[x].task,
         last_seen_delta |-> Round1(agents[x].last_seen - t)]]

\* list_agents(): the dict comprehension
Snapshot(agents, t) ==
    [x \in DOMAIN agents |->
        [meta |-> agents[x].meta, last_seen |-> agents[x].last_seen,
         status |-> agents[x].status, task |-> agents[x].task,
         last_seen_delta |-> Round1(t - agents[x].last_seen)]]

\* ------------------------------------------------------------------ state

NoReq == [op |-> "none", id |-> Missing, arg |-> Missing, cid |-> 0]
NoRow == [id |-> 0, ts |-> IsoZ(0), type |-> "none", payload |-> JsonDumps(<<>>),
          operator |-> OPERATOR, hash |-> Sha256(JsonDumps(<<>>))]
NoRet == [kind |-> "none", code |-> 0, ok |-> FALSE, body |-> <<>>, cid |-> 0]

\* no snapshot has reported a delta yet
NonePolled == [hb |-> [x \in Agents |-> 0], wr |-> [x \in Agents |-> 0]]

\* the state after import and init_db(), the database file holding n rows
InitWith(n) ==
    /\ AGENTS = [x \in {} |-> NewAgent("m1", 0)]
    /\ STATE_LOCK = NoThread
    /\ prior = n
    /\ events = [i \in 1..n |-> PriorRow(i)]
    /\ seq = n
    /\ dbWriter = NoThread
    /\ now = 0
    /\ pc = [t \in Threads |-> "idle"]
    /\ req = [t \in Threads |-> NoReq]
    /\ row = [t \in Threads |-> NoRow]
    /\ ret = [t \in Threads |-> NoRet]
    /\ ncalls = 0
    /\ mut = <<>>
    /\ src = <<>>
    /\ rets = {}
    /\ polled = NonePolled

\* first start: init_db() creates an empty table
Init == InitWith(0)

\* restart: CREATE TABLE IF NOT EXISTS keeps the rows of earlier runs
InitPrior == InitWith(MaxPrior)

\* ---------------------------------------------------------------- helpers


Idle(t) == pc[t] = "idle" /\ ncalls < MaxCalls

\* a handler starts serving request r at position p
Start(t, r, p) ==
    /\ pc' = [pc EXCEPT ![t] = p]
    /\ req' = [req EXCEPT ![t] = [r EXCEPT !.cid = ncalls + 1]]
    /\ ret' = [ret EXCEPT ![t] = NoRet]
    /\ ncalls' = ncalls + 1

\* a handler sends response r to request number c and its thread becomes free
Respond(t, r, c) ==
    /\ pc' = [pc EXCEPT ![t] = "idle"]
    /\ req' = [req EXCEPT ![t] = NoReq]
    /\ ret' = [ret EXCEPT ![t] = [r EXCEPT !.cid = c]]

\* jsonify({"ok": False, "error": ...}), 400
Reject(t) ==
    /\ Respond(t, [kind |-> "error", code |-> 400, ok |-> FALSE, body |-> <<>>, cid |-> 0],
               ncalls + 1)
    /\ ncalls' = ncalls + 1

\* jsonify({"ok": b})
Ok(b) == [kind |-> "ok", code |-> 200, ok |-> b, body |-> <<>>, cid |-> 0]

\* an unhandled exception: Flask answers 500
Error500 == [kind |-> "error", code |-> 500, ok |-> FALSE, body |-> <<>>, cid |-> 0]

\* history record of a finished request: what it was and what it answered
Done(t, r) == [cid |-> req[t].cid, op |-> req[t].op, id |-> req[t].id,
               arg |-> req[t].arg, code |-> r.code, ok |-> r.ok]

\* ------------------------------------------------------ register (57-65, 98-106)

ApiRegister(t) ==
    /\ Idle(t)
    /\ \E id \in Agents \cup {Missing}, meta \in {MetaOf(t)} :
          IF id = Missing
          THEN Reject(t)
          ELSE Start(t, [op |-> "register", id |-> id, arg |-> meta, cid |-> 0], "reg_acq")
    /\ UNCHANGED <<AGENTS, STATE_LOCK, events, seq, dbWriter, now, row, mut, src, rets, prior, polled>>

RegAcquire(t) ==
    /\ pc[t] = "reg_acq"
    /\ LockFree(STATE_LOCK)
    /\ STATE_LOCK' = t
    /\ pc' = [pc EXCEPT ![t] = "reg_write"]
    /\ UNCHANGED <<AGENTS, events, seq, dbWriter, now, req, row, ret, ncalls, mut, src, rets, prior, polled>>

\* faulty variant: the call goes on to audit() without writing the registry
RegWriteSkip(t) ==
    /\ pc[t] = "reg_write"
    /\ STATE_LOCK' = NoThread
    /\ pc' = [pc EXCEPT ![t] = "audit"]
    /\ UNCHANGED <<AGENTS, now, events, seq, dbWriter, req, row, ret, ncalls, mut, src,
                   rets, prior, polled>>

RegWrite(t) ==
    /\ pc[t] = "reg_write"
    /\ AGENTS' = Registered(AGENTS, req[t].id, req[t].arg, now)
    /\ STATE_LOCK' = NoThread
    /\ mut' = Append(mut, [cid |-> req[t].cid, type |-> "register_agent",
                           id |-> req[t].id, arg |-> req[t].arg])
    /\ polled' = [polled EXCEPT !.wr[req[t].id] = 0]
    /\ pc' = [pc EXCEPT ![t] = "audit"]
    /\ UNCHANGED <<now, events, seq, dbWriter, req, row, ret, ncalls, src, rets, prior>>

\* ------------------------------------------------------ heartbeat (67-70, 108-115)

\* faulty variant: the handler does not check agent_id
ApiHeartbeatUnchecked(t) ==
    /\ Idle(t)
    /\ \E id \in Agents \cup {Missing} :
          Start(t, [op |-> "heartbeat", id |-> id, arg |-> Missing, cid |-> 0], "hb_acq")
    /\ UNCHANGED <<AGENTS, STATE_LOCK, events, seq, dbWriter, now, row, mut, src, rets, prior, polled>>

ApiHeartbeat(t) ==
    /\ Idle(t)
    /\ \E id \in Agents \cup {Missing} :
          IF id = Missing
          THEN Reject(t)
          ELSE Start(t, [op |-> "heartbeat", id |-> id, arg |-> Missing, cid |-> 0], "hb_acq")
    /\ UNCHANGED <<AGENTS, STATE_LOCK, events, seq, dbWriter, now, row, mut, src, rets, prior, polled>>

HbAcquire(t) ==
    /\ pc[t] = "hb_acq"
    /\ LockFree(STATE_LOCK)
    /\ STATE_LOCK' = t
    /\ pc' = [pc EXCEPT ![t] = "hb_update"]
    /\ UNCHANGED <<AGENTS, events, seq, dbWriter, now, req, row, ret, ncalls, mut, src, rets, prior, polled>>

\* faulty variant: a heartbeat creates the entry of an unknown agent
HbUpdateUpsert(t) ==
    /\ pc[t] = "hb_update"
    /\ AGENTS' = IF Known(AGENTS, req[t].id)
                 THEN [AGENTS EXCEPT ![req[t].id].last_seen = now]
                 ELSE Registered(AGENTS, req[t].id, Missing, now)
    /\ polled' = IF Known(AGENTS, req[t].id)
                  THEN [polled EXCEPT !.hb[req[t].id] = 0, !.wr[req[t].id] = 0]
                  ELSE polled
    /\ STATE_LOCK' = NoThread
    /\ rets' = rets \cup {Done(t, Ok(TRUE))}
    /\ Respond(t, Ok(TRUE), req[t].cid)
    /\ UNCHANGED <<now, events, seq, dbWriter, row, ncalls, mut, src, prior>>

\* faulty variant: a heartbeat also marks the agent idle
HbUpdateIdles(t) ==
    /\ pc[t] = "hb_update"
    /\ AGENTS' = IF Known(AGENTS, req[t].id)
                 THEN [AGENTS EXCEPT ![req[t].id].last_seen = now,
                                     ![req[t].id].status = "idle"]
                 ELSE AGENTS
    /\ polled' = IF Known(AGENTS, req[t].id)
                  THEN [polled EXCEPT !.hb[req[t].id] = 0, !.wr[req[t].id] = 0]
                  ELSE polled
    /\ STATE_LOCK' = NoThread
    /\ rets' = rets \cup {Done(t, Ok(TRUE))}
    /\ Respond(t, Ok(TRUE), req[t].cid)
    /\ UNCHANGED <<now, events, seq, dbWriter, row, ncalls, mut, src, prior>>

HbUpdate(t) ==
    /\ pc[t] = "hb_update"
    /\ AGENTS' = IF Known(AGENTS, req[t].id)
                 THEN [AGENTS EXCEPT ![req[t].id].last_seen = now]
                 ELSE AGENTS
    /\ polled' = IF Known(AGENTS, req[t].id)
                  THEN [polled EXCEPT !.hb[req[t].id] = 0, !.wr[req[t].id] = 0]
                  ELSE polled
    /\ STATE_LOCK' = NoThread
    /\ rets' = rets \cup {Done(t, Ok(TRUE))}
    /\ Respond(t, Ok(TRUE), req[t].cid)
    /\ UNCHANGED <<now, events, seq, dbWriter, row, ncalls, mut, src, prior>>

\* ------------------------------------------------------ assign (72-79, 117-125)

ApiAssign(t) ==
    /\ Idle(t)
    /\ \E id \in Agents \cup {Missing}, task \in {TaskOf(t), Missing} :
          IF id = Missing \/ task = Missing
          THEN Reject(t)
          ELSE Start(t, [op |-> "assign", id |-> id, arg |-> task, cid |-> 0], "as_acq")
    /\ UNCHANGED <<AGENTS, STATE_LOCK, events, seq, dbWriter, now, row, mut, src, rets, prior, polled>>

AsAcquire(t) ==
    /\ pc[t] = "as_acq"
    /\ LockFree(STATE_LOCK)
    /\ STATE_LOCK' = t
    /\ pc' = [pc EXCEPT ![t] = "as_check"]
    /\ UNCHANGED <<AGENTS, events, seq, dbWriter, now, req, row, ret, ncalls, mut, src, rets, prior, polled>>

\* faulty variant: the failed assignment is audited before False is returned
AsCheckAudits(t) ==
    /\ pc[t] = "as_check"
    /\ IF Known(AGENTS, req[t].id)
       THEN /\ pc' = [pc EXCEPT ![t] = "as_task"]
            /\ UNCHANGED STATE_LOCK
       ELSE /\ STATE_LOCK' = NoThread
            /\ pc' = [pc EXCEPT ![t] = "audit"]
    /\ UNCHANGED <<AGENTS, events, seq, dbWriter, now, req, row, ret, ncalls, mut, src, rets, prior, polled>>

\* faulty variant: the early return leaves the lock held
AsCheckKeepsLock(t) ==
    /\ pc[t] = "as_check"
    /\ IF Known(AGENTS, req[t].id)
       THEN /\ pc' = [pc EXCEPT ![t] = "as_task"]
            /\ UNCHANGED <<req, ret, rets>>
       ELSE /\ rets' = rets \cup {Done(t, Ok(FALSE))}
            /\ Respond(t, Ok(FALSE), req[t].cid)
    /\ UNCHANGED <<AGENTS, STATE_LOCK, events, seq, dbWriter, now, row, ncalls, mut, src,
                   prior, polled>>

\* if agent_id not in AGENTS: return False
AsCheck(t) ==
    /\ pc[t] = "as_check"
    /\ IF Known(AGENTS, req[t].id)
       THEN /\ pc' = [pc EXCEPT ![t] = "as_task"]
            /\ UNCHANGED <<STATE_LOCK, req, ret, rets>>
       ELSE /\ STATE_LOCK' = NoThread
            /\ rets' = rets \cup {Done(t, Ok(FALSE))}
            /\ Respond(t, Ok(FALSE), req[t].cid)
    /\ UNCHANGED <<AGENTS, events, seq, dbWriter, now, row, ncalls, mut, src, prior, polled>>

\* faulty variant: the task is not stored
AsTaskSkip(t) ==
    /\ pc[t] = "as_task"
    /\ pc' = [pc EXCEPT ![t] = "as_status"]
    /\ UNCHANGED <<AGENTS, STATE_LOCK, events, seq, dbWriter, now, req, row, ret, ncalls, mut, src, rets, prior, polled>>

\* AGENTS[agent_id]["task"] = task
AsTask(t) ==
    /\ pc[t] = "as_task"
    /\ AGENTS' = [AGENTS EXCEPT ![req[t].id].task = req[t].arg]
    /\ pc' = [pc EXCEPT ![t] = "as_status"]
    /\ UNCHANGED <<STATE_LOCK, events, seq, dbWriter, now, req, row, ret, ncalls, mut, src, rets, prior, polled>>

\* AGENTS[agent_id]["status"] = "assigned"; the with block ends
AsStatus(t) ==
    /\ pc[t] = "as_status"
    /\ AGENTS' = [AGENTS EXCEPT ![req[t].id].status = "assigned"]
    /\ STATE_LOCK' = NoThread
    /\ mut' = Append(mut, [cid |-> req[t].cid, type |-> "task_assigned",
                           id |-> req[t].id, arg |-> req[t].arg])
    /\ pc' = [pc EXCEPT ![t] = "audit"]
    /\ UNCHANGED <<events, seq, dbWriter, now, req, row, ret, ncalls, src, rets, prior, polled>>

\* ------------------------------------------------------ list_agents (81-90, 127-129)

ApiAgents(t) ==
    /\ Idle(t)
    /\ Start(t, [op |-> "agents", id |-> Missing, arg |-> Missing, cid |-> 0], "ls_acq")
    /\ UNCHANGED <<AGENTS, STATE_LOCK, events, seq, dbWriter, now, row, mut, src, rets, prior, polled>>

LsAcquire(t) ==
    /\ pc[t] = "ls_acq"
    /\ LockFree(STATE_LOCK)
    /\ STATE_LOCK' = t
    /\ pc' = [pc EXCEPT ![t] = "ls_read"]
    /\ UNCHANGED <<AGENTS, events, seq, dbWriter, now, req, row, ret, ncalls, mut, src, rets, prior, polled>>

\* the deltas of snapshot s noted over the earlier ones
Reported(f, s) ==
    [x \in Agents |-> IF x \in DOMAIN s THEN s[x].last_seen_delta ELSE f[x]]

LsRead(t) ==
    /\ pc[t] = "ls_read"
    /\ STATE_LOCK' = NoThread
    /\ Respond(t, [kind |-> "agents", code |-> 200, ok |-> TRUE,
                   body |-> Snapshot(AGENTS, now), cid |-> 0], req[t].cid)
    /\ polled' = [hb |-> Reported(polled.hb, Snapshot(AGENTS, now)),
                   wr |-> Reported(polled.wr, Snapshot(AGENTS, now))]
    /\ UNCHANGED <<now, AGENTS, events, seq, dbWriter, row, ncalls, mut, src, rets, prior>>

\* ------------------------------------------------------ audit (41-53)

\* the payload dict built by the caller of audit()
Payload(r) ==
    IF r.op = "register"
    THEN <<<<"id", r.id>>, <<"meta", r.arg>>>>
    ELSE <<<<"id", r.id>>, <<"task", r.arg>>>>

EvtType(r) == IF r.op = "register" THEN "register_agent" ELSE "task_assigned"

\* ts, rec, h
AuditBegin(t) ==
    /\ pc[t] = "audit"
    /\ row' = [row EXCEPT ![t] = AuditRow(EvtType(req[t]), Payload(req[t]), OPERATOR, now)]
    /\ pc' = [pc EXCEPT ![t] = "aud_insert"]
    /\ UNCHANGED <<now, AGENTS, STATE_LOCK, events, seq, dbWriter, req, ret, ncalls, mut, src, rets, prior, polled>>

\* faulty variant: the INSERT does not wait for the database write lock
AuditInsertUnlocked(t) ==
    /\ pc[t] = "aud_insert"
    /\ dbWriter' = t
    /\ row' = [row EXCEPT ![t].id = NextRowId(seq)]
    /\ pc' = [pc EXCEPT ![t] = "aud_commit"]
    /\ UNCHANGED <<AGENTS, STATE_LOCK, events, seq, now, req, ret, ncalls, mut, src, rets, prior, polled>>

\* connect; INSERT: the connection takes the database write lock and the row its id
AuditInsert(t) ==
    /\ pc[t] = "aud_insert"
    /\ dbWriter = NoThread
    /\ dbWriter' = t
    /\ row' = [row EXCEPT ![t].id = NextRowId(seq)]
    /\ pc' = [pc EXCEPT ![t] = "aud_commit"]
    /\ UNCHANGED <<AGENTS, STATE_LOCK, events, seq, now, req, ret, ncalls, mut, src, rets, prior, polled>>

\* faulty variant: INSERT OR REPLACE over the newest row
AuditCommitReplace(t) ==
    /\ pc[t] = "aud_commit"
    /\ events' = IF events = <<>> THEN <<row[t]>>
                 ELSE [events EXCEPT ![Len(events)] = row[t]]
    /\ seq' = row[t].id
    /\ dbWriter' = NoThread
    /\ src' = Append(src, req[t].cid)
    /\ rets' = rets \cup {Done(t, Ok(TRUE))}
    /\ row' = [row EXCEPT ![t] = NoRow]
    /\ Respond(t, Ok(TRUE), req[t].cid)
    /\ UNCHANGED <<AGENTS, STATE_LOCK, now, ncalls, mut, prior, polled>>

\* commit; close; return h; the caller returns and the handler answers ok
AuditCommit(t) ==
    /\ pc[t] = "aud_commit"
    /\ events' = Append(events, row[t])
    /\ seq' = row[t].id
    /\ dbWriter' = NoThread
    /\ src' = Append(src, req[t].cid)
    /\ rets' = rets \cup {Done(t, Ok(TRUE))}
    /\ row' = [row EXCEPT ![t] = NoRow]
    /\ Respond(t, Ok(TRUE), req[t].cid)
    /\ UNCHANGED <<AGENTS, STATE_LOCK, now, ncalls, mut, prior, polled>>

\* cursor.execute(INSERT) raises sqlite3.Error (database is locked after the busy
\* timeout, disk I/O error): nothing is written, the exception leaves audit(),
\* its caller and the handler
AuditInsertFail(t) ==
    /\ pc[t] = "aud_insert"
    /\ rets' = rets \cup {Done(t, Error500)}
    /\ row' = [row EXCEPT ![t] = NoRow]
    /\ Respond(t, Error500, req[t].cid)
    /\ UNCHANGED <<AGENTS, STATE_LOCK, events, seq, dbWriter, now, ncalls, mut, src, prior, polled>>

\* faulty variant: the exception is swallowed and the handler answers ok
AuditCommitFailSwallowed(t) ==
    /\ pc[t] = "aud_commit"
    /\ dbWriter' = NoThread
    /\ rets' = rets \cup {Done(t, Ok(TRUE))}
    /\ row' = [row EXCEPT ![t] = NoRow]
    /\ Respond(t, Ok(TRUE), req[t].cid)
    /\ UNCHANGED <<AGENTS, STATE_LOCK, events, seq, now, ncalls, mut, src, prior, polled>>

\* conn.commit() raises sqlite3.Error: the transaction is rolled back when the
\* connection is dropped, and the exception leaves the handler
AuditCommitFail(t) ==
    /\ pc[t] = "aud_commit"
    /\ dbWriter' = NoThread
    /\ rets' = rets \cup {Done(t, Error500)}
    /\ row' = [row EXCEPT ![t] = NoRow]
    /\ Respond(t, Error500, req[t].cid)
    /\ UNCHANGED <<AGENTS, STATE_LOCK, events, seq, now, ncalls, mut, src, prior, polled>>

\* ------------------------------------------------------ audit listing (131-139)

ApiAudit(t) ==
    /\ Idle(t)
    /\ ncalls' = ncalls + 1
    /\ Respond(t, [kind |-> "audit", code |-> 200, ok |-> TRUE, body |-> Listing(events),
                   cid |-> 0], ncalls + 1)
    /\ UNCHANGED <<AGENTS, STATE_LOCK, events, seq, dbWriter, now, row, mut, src, rets, prior, polled>>

Next ==
    \E t \in Threads :
        \/ ApiRegister(t) \/ RegAcquire(t) \/ RegWrite(t)
        \/ ApiHeartbeat(t) \/ HbAcquire(t) \/ HbUpdate(t)
        \/ ApiAssign(t) \/ AsAcquire(t) \/ AsCheck(t) \/ AsTask(t) \/ AsStatus(t)
        \/ ApiAgents(t) \/ LsAcquire(t) \/ LsRead(t)
        \/ AuditBegin(t) \/ AuditInsert(t) \/ AuditCommit(t)
        \/ ApiAudit(t)

\* the requests are served within one tick of the clock, and every write to
\* the audit store succeeds
Spec == Init /\ [][Next]_vars

\* time passes: time.time() and datetime.utcnow() never run backwards
Tick ==
    /\ now < MaxClock
    /\ now' = now + 1
    /\ UNCHANGED <<AGENTS, STATE_LOCK, events, seq, dbWriter, pc, req, row, ret,
                   ncalls, mut, src, rets, prior, polled>>

\* the same program with the clock running
NextClock == Next \/ Tick

\* the hub at the moment its first request, register a1 with meta m1, has been
\* served: the agent is in the registry and its row in the log
InitClock ==
    /\ AGENTS = Registered([x \in {} |-> NewAgent("m1", 0)], "a1", "m1", 0)
    /\ STATE_LOCK = NoThread
    /\ prior = 1
    /\ events = <<PriorRow(1)>>
    /\ seq = 1
    /\ dbWriter = NoThread
    /\ now = 0
    /\ pc = [t \in Threads |-> "idle"]
    /\ req = [t \in Threads |-> NoReq]
    /\ row = [t \in Threads |-> NoRow]
    /\ ret = [t \in Threads |-> NoRet]
    /\ ncalls = 0
    /\ mut = <<>>
    /\ src = <<>>
    /\ rets = {}
    /\ polled = NonePolled

SpecClock == InitClock /\ [][NextClock]_vars

\* the same program started on the database file of earlier runs
SpecPrior == InitPrior /\ [][Next]_vars

\* the audit store may refuse a write
NextFault ==
    \/ Next
    \/ \E t \in Threads : AuditInsertFail(t) \/ AuditCommitFail(t)

SpecFault == Init /\ [][NextFault]_vars

\* thread t enters a with STATE_LOCK block
Acquire(t) == RegAcquire(t) \/ HbAcquire(t) \/ AsAcquire(t) \/ LsAcquire(t)

\* thread t executes the next statement of the call it is in; an INSERT or a
\* commit either goes through or raises (sqlite gives up after its busy timeout)
Proceed(t) ==
    \/ RegWrite(t) \/ HbUpdate(t) \/ AsCheck(t) \/ AsTask(t) \/ AsStatus(t) \/ LsRead(t)
    \/ AuditBegin(t) \/ AuditInsert(t) \/ AuditInsertFail(t)
    \/ AuditCommit(t) \/ AuditCommitFail(t)

\* fair scheduling: a thread that can take a step, and stays able to, takes
\* it; no request has to arrive
SpecFair ==
    /\ SpecFault
    /\ \A t \in Threads : WF_vars(Acquire(t) \/ Proceed(t))

\* ================================================================ properties

\* thread t takes a step of its handler
Moved(t) == pc'[t] # pc[t]

Quiescent == \A t \in Threads : pc[t] = "idle"

\* response r is jsonify({"ok": b})
Answers(r, b) == r.kind = "ok" /\ r.code = 200 /\ r.ok = b

\* the rows committed since the process started
NewEvents == SubSeq(events, prior + 1, Len(events))

\* C1: a register_agent call on an id already in the registry leaves that agent
\* with status idle, task null and the new meta, whatever it held before.
C1_ReRegisterResets ==
    [][\A t \in Threads :
        (pc[t] = "reg_write" /\ Moved(t) /\ req[t].id \in DOMAIN AGENTS) =>
            /\ req[t].id \in DOMAIN AGENTS'
            /\ AGENTS'[req[t].id].status = "idle"
            /\ AGENTS'[req[t].id].task = "null"
            /\ AGENTS'[req[t].id].meta = req[t].arg]_vars

\* an assigned agent was registered again, with another meta, and is idle
C1_Witness ==
    \E i, j \in DOMAIN mut :
        /\ i < j /\ j = Len(mut)
        /\ mut[i].type = "task_assigned" /\ mut[j].type = "register_agent"
        /\ mut[i].id = mut[j].id
        /\ \E h \in 1..(i - 1) : mut[h].type = "register_agent" /\ mut[h].id = mut[j].id
                                   /\ mut[h].arg # mut[j].arg
        /\ AGENTS[mut[j].id].status = "idle"
        /\ AGENTS[mut[j].id].task = "null"
        /\ AGENTS[mut[j].id].meta = mut[j].arg

\* C2: assign_task on an id that is not in the registry returns False, leaves
\* the registry unchanged and appends no audit event.
C2_AssignUnknownNoEffect ==
    [][\A t \in Threads :
        (pc[t] \in {"as_acq", "as_check"} /\ Moved(t) /\ req[t].id \notin DOMAIN AGENTS) =>
            /\ AGENTS' = AGENTS
            /\ events' = events /\ seq' = seq /\ row' = row /\ dbWriter' = dbWriter
            /\ pc[t] = "as_check" => (pc'[t] = "idle" /\ Answers(ret'[t], FALSE))]_vars

\* an assign on an unknown id has returned False
C2_Witness ==
    \E r \in rets : r.op = "assign" /\ ~r.ok /\ r.code = 200 /\ r.id \notin DOMAIN AGENTS

\* C3: a heartbeat on an id that is not in the registry reports success, leaves
\* the registry unchanged and appends no audit event.
C3_HeartbeatUnknownNoEffect ==
    [][\A t \in Threads :
        (pc[t] \in {"hb_acq", "hb_update"} /\ Moved(t) /\ req[t].id \notin DOMAIN AGENTS) =>
            /\ AGENTS' = AGENTS
            /\ events' = events /\ seq' = seq /\ row' = row /\ dbWriter' = dbWriter
            /\ pc[t] = "hb_update" => (pc'[t] = "idle" /\ Answers(ret'[t], TRUE))]_vars

\* a heartbeat on an unknown id has returned success
C3_Witness ==
    \E r \in rets : r.op = "heartbeat" /\ r.ok /\ r.code = 200 /\ r.id \notin DOMAIN AGENTS

\* C4: audit event ids are strictly increasing in append order and gapless,
\* whatever the interleaving of the audit() calls of concurrent register and
\* assign requests.
C4_AuditIdsGapless ==
    \A k \in 2..Len(events) : events[k].id = events[k - 1].id + 1

\* a register and an assign raced in audit(): the call that wrote the registry
\* first committed its row last, and both rows are in the log
C4_Witness ==
    /\ Len(mut) = 2 /\ Len(NewEvents) = 2
    /\ src = <<mut[2].cid, mut[1].cid>>
    /\ NewEvents[1].type # NewEvents[2].type
    /\ NewEvents[2].id = NewEvents[1].id + 1

\* C5: concurrent register_agent calls on different ids lose no registration:
\* every registered id is in the registry, and once both calls have returned
\* (no other request on those ids) each shows its own meta, idle, null.
C5_NoLostRegistration ==
    /\ \A i \in DOMAIN mut : mut[i].type = "register_agent" => mut[i].id \in DOMAIN AGENTS
    /\ \A r \in rets :
        (/\ r.op = "register" /\ r.ok
         /\ \A i \in DOMAIN mut : mut[i].id = r.id => mut[i].cid = r.cid
         /\ \A t \in Threads : req[t].id # r.id) =>
            /\ r.id \in DOMAIN AGENTS
            /\ AGENTS[r.id].meta = r.arg
            /\ AGENTS[r.id].status = "idle"
            /\ AGENTS[r.id].task = "null"

\* two registrations of different ids overlapped (the first to write was the
\* last to be audited), both have returned and both entries are there
C5_Witness ==
    \E r1, r2 \in rets :
        /\ r1.op = "register" /\ r2.op = "register" /\ r1.ok /\ r2.ok
        /\ r1.id # r2.id /\ r1.arg # r2.arg
        /\ Len(mut) = 2 /\ mut[1].cid = r1.cid /\ mut[2].cid = r2.cid
        /\ src = <<r2.cid, r1.cid>>
        /\ Quiescent
        /\ DOMAIN AGENTS = {r1.id, r2.id}
        /\ AGENTS[r1.id].meta = r1.arg /\ AGENTS[r2.id].meta = r2.arg

\* C6: every snapshot returned by list_agents shows each agent either idle
\* with task null or assigned with the task of an assign call on that id.
C6_SnapshotNotTorn ==
    \A t \in Threads : ret[t].kind = "agents" =>
        \A x \in DOMAIN ret[t].body :
            \/ ret[t].body[x].status = "idle" /\ ret[t].body[x].task = "null"
            \/ /\ ret[t].body[x].status = "assigned"
               /\ \E i \in DOMAIN mut : /\ mut[i].type = "task_assigned"
                                        /\ mut[i].id = x
                                        /\ mut[i].arg = ret[t].body[x].task

\* a snapshot taken inside another thread's assign_task call (after its
\* writes, before its audit row is committed) shows the assignment whole
C6_Witness ==
    \E t, u \in Threads :
        /\ ret[t].kind = "agents"
        /\ req[u].op = "assign" /\ pc[u] \in {"audit", "aud_insert", "aud_commit"}
        /\ req[u].id \in DOMAIN ret[t].body
        /\ ret[t].body[req[u].id].status = "assigned"
        /\ ret[t].body[req[u].id].task = req[u].arg

\* the payload text audit() stores for a registry mutation
MutPayload(m) ==
    JsonDumps(<< <<"id", m.id>>,
                 <<IF m.type = "register_agent" THEN "meta" ELSE "task", m.arg>> >>)

\* the number of rows committed for request c
RowsOf(s, c) == Cardinality({k \in DOMAIN s : s[k] = c})

\* C7: every register_agent or assign_task call that mutates the registry
\* eventually has exactly one corresponding audit event: never more than one,
\* every row answers to a mutation with the payload of that mutation, and when
\* no call is in flight every mutation has its row and the number of rows
\* equals the number of register calls and successful assign calls completed.
C7_EveryMutationAudited ==
    /\ \A c \in 1..ncalls : RowsOf(src, c) <= 1
    /\ \A k \in DOMAIN src :
          \E i \in DOMAIN mut : /\ mut[i].cid = src[k]
                                /\ NewEvents[k].type = mut[i].type
                                /\ NewEvents[k].payload = MutPayload(mut[i])
    /\ Quiescent =>
          /\ \A i \in DOMAIN mut : RowsOf(src, mut[i].cid) = 1
          /\ Len(NewEvents) =
                Cardinality({r \in rets : r.op \in {"register", "assign"} /\ r.ok})

\* C8: assign_task on an id in the registry sets the agent's task and status,
\* returns True and appends exactly one task_assigned event for the call.
C8_AssignKnown ==
    [][\A t \in Threads : (req[t].op = "assign" /\ Moved(t)) =>
        /\ (pc[t] = "as_check" /\ req[t].id \in DOMAIN AGENTS) =>
              pc'[t] = "as_task"
        /\ pc[t] = "as_task" =>
              AGENTS'[req[t].id].task = req[t].arg
        /\ pc[t] = "as_status" =>
              /\ AGENTS'[req[t].id].task = req[t].arg
              /\ AGENTS'[req[t].id].status = "assigned"
              /\ pc'[t] = "audit"
        /\ pc[t] \in {"audit", "aud_insert"} =>
              /\ events' = events
              /\ RowsOf(src, req[t].cid) = 0
        /\ pc[t] = "aud_commit" =>
              /\ pc'[t] = "idle" /\ Answers(ret'[t], TRUE)
              /\ Len(events') = Len(events) + 1
              /\ SubSeq(events', 1, Len(events)) = events
              /\ events'[Len(events')].type = "task_assigned"
              /\ events'[Len(events')].payload =
                    JsonDumps(<< <<"id", req[t].id>>, <<"task", req[t].arg>> >>)
              /\ RowsOf(src', req[t].cid) = 1]_vars

\* an assign on a known id has returned True; the agent holds the task and the
\* log holds the call's row
C8_Witness ==
    \E r \in rets :
        /\ r.op = "assign" /\ r.ok
        /\ AGENTS[r.id].status = "assigned" /\ AGENTS[r.id].task = r.arg
        /\ \E k \in DOMAIN src : src[k] = r.cid /\ NewEvents[k].type = "task_assigned"

\* C9: the audit log is append-only (every step keeps the stored rows as a
\* prefix of the next state's rows) and the id order is the append order.
C9_AppendOnly ==
    /\ [][/\ Len(events') >= Len(events)
          /\ SubSeq(events', 1, Len(events)) = events]_vars
    /\ [](\A k \in 2..Len(events) : events[k - 1].id < events[k].id)

\* racing calls appended rows to a log that held rows of earlier runs, and
\* the log was listed
C9_Witness ==
    /\ prior > 0 /\ events[prior] = PriorRow(prior)
    /\ \E i, j \in DOMAIN mut : i < j /\ src = <<mut[j].cid, mut[i].cid>>
    /\ Len(NewEvents) >= 2
    /\ \E t \in Threads : ret[t].kind = "audit"

\* thread t answers an audit listing in this step
Listed(t) ==
    /\ pc[t] = "idle" /\ ncalls' # ncalls
    /\ ret'[t].kind = "audit" /\ ret'[t].cid = ncalls'

\* C10: the audit listing returns min(50, total) rows, the rows with the
\* highest ids, ordered by id strictly descending, and leaves the log as it is.
C10_ListingNewestFirst ==
    [][\A t \in Threads : Listed(t) =>
        LET L == ret'[t].body IN
        /\ Len(L) = IF Len(events) < LIMIT THEN Len(events) ELSE LIMIT
        /\ \A i \in 1..(Len(L) - 1) : L[i].id > L[i + 1].id
        /\ \A i \in DOMAIN L : \E k \in DOMAIN events : events[k] = L[i]
        /\ \A k \in DOMAIN events :
              \/ \E i \in DOMAIN L : L[i] = events[k]
              \/ \A i \in DOMAIN L : events[k].id < L[i].id
        /\ events' = events /\ seq' = seq /\ dbWriter' = dbWriter]_vars

\* a listing of exactly 50 rows taken from a log of more than 50
C10_Witness ==
    \E t \in Threads :
        /\ ret[t].kind = "audit"
        /\ Len(ret[t].body) = LIMIT
        /\ ret[t].body[1].id > LIMIT
        /\ ret[t].body[LIMIT].id > 1

\* json.loads of a stored payload text: the dict, its items in document order
JsonLoads(text) == text.json

\* the content hash recomputed from the stored columns of row r
Recomputed(r) ==
    Sha256(JsonDumpsSorted([ts |-> r.ts, type |-> r.type,
                            payload |-> JsonLoads(r.payload), operator |-> r.operator]))

Mutated(c) == \E i \in DOMAIN mut : mut[i].cid = c

\* C12: a register or assign call whose audit write failed (it called audit()
\* and finished with no row of its own in the log) has answered with an error
\* and not with success; a call that answered with an error has no row, and a
\* call that called audit() and answered success has exactly one.
C12_FailedWriteSurfaced ==
    \A r \in rets :
        /\ r.code = 500 => (~r.ok /\ Mutated(r.cid) /\ RowsOf(src, r.cid) = 0)
        /\ Mutated(r.cid) =>
              IF RowsOf(src, r.cid) = 0
              THEN r.code = 500 /\ ~r.ok
              ELSE r.code = 200 /\ r.ok /\ RowsOf(src, r.cid) = 1

\* a register call and an assign call each lost their audit write: both have
\* answered 500, neither has a row, and the log is still empty
C12_Witness ==
    \E r1, r2 \in rets :
        /\ r1.op = "register" /\ r2.op = "assign"
        /\ r1.code = 500 /\ r2.code = 500
        /\ RowsOf(src, r1.cid) = 0 /\ RowsOf(src, r2.cid) = 0
        /\ events = <<>>
        /\ \E t \in Threads : ret[t].code = 500 /\ ret[t].cid = r2.cid

\* thread t answers, in this step, a request it did not start a handler body
\* for: one of register, heartbeat, assign with a required field missing
Refused(t) ==
    /\ pc[t] = "idle" /\ pc'[t] = "idle" /\ ncalls' # ncalls
    /\ ret'[t].cid = ncalls' /\ ret'[t].kind # "audit"

\* C13: a register, heartbeat or assign request with a required field missing
\* is answered 400 and changes neither the registry nor the audit log; no
\* request with a missing field is ever served by register_agent,
\* update_heartbeat or assign_task.
C13_MissingFieldRejected ==
    /\ [][\A t \in Threads : Refused(t) =>
            /\ ret'[t].kind = "error" /\ ret'[t].code = 400 /\ ~ret'[t].ok
            /\ AGENTS' = AGENTS /\ STATE_LOCK' = STATE_LOCK
            /\ events' = events /\ seq' = seq /\ dbWriter' = dbWriter /\ row' = row
            /\ mut' = mut /\ src' = src]_vars
    /\ [](\A t \in Threads :
            /\ req[t].op \in {"register", "heartbeat", "assign"} => req[t].id # Missing
            /\ req[t].op = "assign" => req[t].arg # Missing)
    /\ [](Missing \notin DOMAIN AGENTS)

\* a request with a missing field was refused while the registry held an
\* assigned agent and the log two rows, all of which are still there
C13_Witness ==
    \E t \in Threads :
        /\ ret[t].code = 400 /\ ret[t].cid = ncalls
        /\ Len(events) = 2 /\ Len(mut) = 2
        /\ \E x \in DOMAIN AGENTS : AGENTS[x].status = "assigned"

\* thread t takes its snapshot in this step
Polls(t) == pc[t] = "ls_read" /\ Moved(t)

\* the delta snapshot s' of thread t reports for agent x
DeltaOf(t, x) == ret'[t].body[x].last_seen_delta

\* C14 as stated: with the clock never running backwards, a poll reports for
\* every agent a last_seen_delta no smaller than the one the previous poll
\* reported, if no heartbeat for that agent came between the two; and a poll
\* taken after a heartbeat, before the clock advances, reports 0.
C14_DeltaMonotoneBetweenHeartbeats ==
    [][\A t \in Threads : Polls(t) =>
        \A x \in DOMAIN AGENTS :
            /\ DeltaOf(t, x) >= polled.hb[x]
            /\ AGENTS[x].last_seen = now => DeltaOf(t, x) = 0]_vars

\* C14, amended: the same with no heartbeat and no registration of that agent
\* between the two polls (register_agent writes last_seen as well).
C14_DeltaMonotoneBetweenWrites ==
    [][\A t \in Threads : Polls(t) =>
        /\ DOMAIN ret'[t].body = DOMAIN AGENTS
        /\ \A x \in DOMAIN AGENTS :
            /\ DeltaOf(t, x) >= polled.wr[x]
            /\ DeltaOf(t, x) >= 0
            /\ AGENTS[x].last_seen = now => DeltaOf(t, x) = 0]_vars

\* a poll has reported a delta above 0 for an agent whose last_seen was not
\* written since, and a heartbeat was served in this tick for another agent
\* the last poll has reported 0 for
C14_Witness ==
    \E x, y \in DOMAIN AGENTS :
        /\ polled.wr[x] > 0 /\ AGENTS[x].last_seen < now
        /\ \E r \in rets : r.op = "heartbeat" /\ r.id = y
        /\ AGENTS[y].last_seen = now /\ now > 0
        /\ \E t \in Threads : /\ ret[t].kind = "agents"
                                /\ y \in DOMAIN ret[t].body
                                /\ ret[t].body[y].last_seen = now
                                /\ ret[t].body[y].last_seen_delta = 0
                                /\ ret[t].body[x].last_seen_delta > 0

\* the finished assign calls that returned b
Assigns(b) == {r \in rets : r.op = "assign" /\ r.code = 200 /\ r.ok = b}

\* C15 as stated: the task_assigned row is appended whether or not the
\* assignment succeeded; an assign call on an unknown id that has returned
\* failure has appended its row.
C15_FailedAssignAudited ==
    \A r \in Assigns(FALSE) : RowsOf(src, r.cid) = 1

\* C15, amended: the task_assigned row is appended only when the assignment
\* succeeded. A finished assign call has a row exactly if it returned True;
\* every task_assigned row belongs to an assign call that found its agent in
\* the registry and wrote to it.
C15_OnlySuccessfulAssignAudited ==
    /\ \A r \in Assigns(FALSE) : RowsOf(src, r.cid) = 0 /\ ~Mutated(r.cid)
    /\ \A r \in Assigns(TRUE) : RowsOf(src, r.cid) = 1 /\ Mutated(r.cid)
    /\ \A k \in DOMAIN src :
          NewEvents[k].type = "task_assigned" =>
              \E i \in DOMAIN mut : /\ mut[i].cid = src[k]
                                     /\ mut[i].type = "task_assigned"
                                     /\ mut[i].id \in DOMAIN AGENTS

\* one assign call has succeeded and one, on an id that is still unknown, has
\* failed; no call is in flight and the log holds one task_assigned row
C15_Witness ==
    /\ Quiescent
    /\ \E r \in Assigns(FALSE) : r.id \notin DOMAIN AGENTS
    /\ Assigns(TRUE) # {}
    /\ Cardinality({k \in DOMAIN events : events[k].type = "task_assigned"}) = 1

\* the agent id in the payload of a stored row
RowAgent(r) == JsonLoads(r.payload)[1][2]

\* mutation mu is the one row r reports
Reports(r, mu) == r.type = mu.type /\ r.payload = MutPayload(mu)

\* C16 as stated: in every reachable state the registry contains the id of
\* every register_agent event in the audit log, and every task_assigned event
\* in the log reports a mutation applied to the registry in an earlier step.
C16_LoggedIsInRegistry ==
    \A k \in DOMAIN events :
        /\ events[k].type = "register_agent" => RowAgent(events[k]) \in DOMAIN AGENTS
        /\ events[k].type = "task_assigned" =>
              \E i \in DOMAIN mut : Reports(events[k], mut[i])

\* C16, amended to the events appended by the running process: when a row
\* becomes visible, the mutation it reports was applied by the same call in an
\* earlier step; the registry contains the id of every register_agent row of
\* this process, and every task_assigned row of this process reports an
\* assignment that was applied.
C16_MutationBeforeAudit ==
    /\ [][\A k \in DOMAIN src' \ DOMAIN src :
            \E i \in DOMAIN mut : /\ mut[i].cid = src'[k]
                                   /\ Reports(events'[prior + k], mut[i])]_vars
    /\ [](\A k \in DOMAIN src :
            /\ \E i \in DOMAIN mut : mut[i].cid = src[k] /\ Reports(NewEvents[k], mut[i])
            /\ RowAgent(NewEvents[k]) \in DOMAIN AGENTS)

\* the log holds rows of an earlier run, and a register_agent row and a
\* task_assigned row of this run; the agent is assigned that task
C16_Witness ==
    /\ prior > 0
    /\ \E k1, k2 \in DOMAIN src :
          /\ NewEvents[k1].type = "register_agent"
          /\ NewEvents[k2].type = "task_assigned"
          /\ RowAgent(NewEvents[k1]) = RowAgent(NewEvents[k2])
          /\ AGENTS[RowAgent(NewEvents[k2])].status = "assigned"
          /\ \E i \in DOMAIN mut : /\ mut[i].cid = src[k2]
                                     /\ AGENTS[mut[i].id].task = mut[i].arg

\* the positions inside a with STATE_LOCK block
Critical == {"reg_write", "hb_update", "as_check", "as_task", "as_status", "ls_read"}

\* the positions of a thread waiting to enter one
Waiting == {"reg_acq", "hb_acq", "as_acq", "ls_acq"}

\* C17: at most one thread at a time is inside a registry critical section
\* (register_agent's write, update_heartbeat, assign_task's check and writes,
\* list_agents' read), and that thread is the holder of STATE_LOCK.
C17_MutualExclusion ==
    /\ \A t, u \in Threads : (pc[t] \in Critical /\ pc[u] \in Critical) => t = u
    /\ \A t \in Threads : pc[t] \in Critical <=> STATE_LOCK = t

\* a thread is between the two writes of assign_task while the other waits
\* for the lock to take a snapshot
C17_Witness ==
    \E t, u \in Threads :
        /\ pc[t] = "as_status" /\ STATE_LOCK = t
        /\ pc[u] \in Waiting /\ req[u].op = "agents"

\* C18: the steps of a heartbeat call on a known id change nothing of the
\* registry but that agent's last_seen, which becomes the current time: its
\* meta, status and task, the other agents' entries and the set of registered
\* ids stay as they are, and the audit store is not touched.
C18_HeartbeatFrame ==
    [][\A t \in Threads :
        (req[t].op = "heartbeat" /\ Moved(t) /\ req[t].id \in DOMAIN AGENTS) =>
            /\ DOMAIN AGENTS' = DOMAIN AGENTS
            /\ \A x \in DOMAIN AGENTS : x # req[t].id => AGENTS'[x] = AGENTS[x]
            /\ AGENTS'[req[t].id].meta = AGENTS[req[t].id].meta
            /\ AGENTS'[req[t].id].status = AGENTS[req[t].id].status
            /\ AGENTS'[req[t].id].task = AGENTS[req[t].id].task
            /\ pc[t] = "hb_acq" => AGENTS' = AGENTS
            /\ pc[t] = "hb_update" =>
                  /\ AGENTS'[req[t].id].last_seen = now
                  /\ pc'[t] = "idle" /\ Answers(ret'[t], TRUE)
            /\ events' = events /\ seq' = seq /\ dbWriter' = dbWriter /\ row' = row
            /\ mut' = mut /\ src' = src]_vars

\* a heartbeat call has moved the last_seen of an assigned agent forward while
\* a second agent is registered; the agent is still assigned
C18_Witness ==
    \E r \in rets : \E y \in DOMAIN AGENTS :
        /\ r.op = "heartbeat" /\ r.id \in DOMAIN AGENTS /\ y # r.id
        /\ AGENTS[r.id].last_seen = now /\ now > 0
        /\ AGENTS[r.id].status = "assigned"
        /\ AGENTS[y].last_seen < now
        /\ \A i \in DOMAIN mut : mut[i].id = r.id => mut[i].cid < r.cid

\* the position in mut of the mutation of request c
MutIndex(c) == CHOOSE i \in DOMAIN mut : mut[i].cid = c

\* the effect of row r on a registry view g: register_agent sets idle / null,
\* task_assigned sets assigned / task
Replayed(g, r) ==
    LET p == JsonLoads(r.payload)
        entry == IF r.type = "register_agent"
                 THEN [status |-> "idle", task |-> "null"]
                 ELSE [status |-> "assigned", task |-> p[2][2]]
    IN  [x \in DOMAIN g \cup {p[1][2]} |-> IF x = p[1][2] THEN entry ELSE g[x]]

\* the rows of log replayed in id order, starting from the empty registry
RECURSIVE Replay(_)
Replay(log) ==
    IF log = <<>> THEN [x \in {} |-> [status |-> "idle", task |-> "null"]]
    ELSE Replayed(Replay(SubSeq(log, 1, Len(log) - 1)), log[Len(log)])

\* C19: for each agent id the audit rows appear in the log in the order in
\* which their mutations were applied to the registry; when no call is in
\* flight, replaying the log in id order gives every agent's status and task
\* as the registry holds them.
C19_LogOrderIsMutationOrder ==
    /\ \A k1, k2 \in DOMAIN src :
          (k1 < k2 /\ RowAgent(NewEvents[k1]) = RowAgent(NewEvents[k2])) =>
              MutIndex(src[k1]) < MutIndex(src[k2])
    /\ Quiescent =>
          /\ DOMAIN Replay(NewEvents) = DOMAIN AGENTS
          /\ \A x \in DOMAIN AGENTS :
                /\ Replay(NewEvents)[x].status = AGENTS[x].status
                /\ Replay(NewEvents)[x].task = AGENTS[x].task

\* the replay of the log disagrees with the registry while no call is in flight
C19_ReplayDiverges ==
    /\ Quiescent
    /\ \E x \in DOMAIN AGENTS :
          /\ x \in DOMAIN Replay(NewEvents)
          /\ Replay(NewEvents)[x].status # AGENTS[x].status

\* C20: under fair scheduling every call that was started terminates and no
\* caller waits for the registry lock forever; a thread leaving a critical
\* section releases the lock on every path (assign_task's early return
\* included), a failing audit write holds no lock, and the lock is free
\* whenever no call is in flight.
C20_CallsTerminate ==
    /\ \A t \in Threads : (pc[t] # "idle") ~> (pc[t] = "idle")
    /\ [][\A t \in Threads :
            /\ (pc[t] \in Critical /\ pc'[t] \notin Critical) => STATE_LOCK' = NoThread
            /\ (pc[t] \in {"aud_insert", "aud_commit"} /\ pc'[t] = "idle") =>
                  (STATE_LOCK' = STATE_LOCK /\ dbWriter' # t)]_vars
    /\ [](Quiescent => (STATE_LOCK = NoThread /\ dbWriter = NoThread))

\* calls have ended on both paths the claim names, an assign returning False
\* for an unknown id and a register answered 500 after its audit write
\* failed; no call is in flight and the lock is free
C20_Witness ==
    /\ Quiescent /\ STATE_LOCK = NoThread
    /\ \E r \in Assigns(FALSE) : r.id \notin DOMAIN AGENTS
    /\ \E r \in rets : r.op = "register" /\ r.code = 500
    /\ \E r \in rets : r.op = "heartbeat"

====
